---------------------------- MODULE Spec2Model ----------------------------
(***************************************************************************)
(* The recommendation engine of apache2buddy-go (package analysis):        *)
(* CalculateMemoryStats, GenerateRecommendations and                       *)
(* GenerateEnhancedRecommendations applied to the data handed over by the  *)
(* collaborators (processes, system memory, Apache configuration, server   *)
(* status, virtual host count), the debug toggle of package debug, and     *)
(* the part of main that runs the engine and turns its verdict into the    *)
(* exit code.                                                              *)
(*                                                                         *)
(* float64 values are modelled as exact rationals plus the IEEE specials   *)
(* +Inf, -Inf and NaN; the rounding of the last bit of a float64 product   *)
(* is not modelled.  Go's int is 64 bits wide; the two out-of-range        *)
(* results of a float64 -> int conversion are modelled by MinInt and       *)
(* MaxInt, which lie outside every value the bounds below can produce.     *)
(***************************************************************************)
EXTENDS Integers, Sequences, FiniteSets, TLC

(* ------------------------------ bounds -------------------------------- *)
\* AvailableMemoryMB is drawn from -MaxDeficit..MaxAvailable: main.go:261
\* subtracts the memory of other services, so it can be zero or negative.
MaxAvailable == 5
MaxDeficit == 1
\* memory readings are multiples of 1/MBUnits MB, from -1/MBUnits MB up to 1 MB
MBUnits == 2
\* MaxClients and MaxRequestWorkers are drawn from -1..MaxLimit, the virtual
\* host count from 0..MaxLimit
MaxLimit == 2
MaxProcs == 1
\* a list of processes has at most MaxReadings readings
MaxReadings == 2
MaxServiceMB == 3
MaxHistory == 3
MaxLogPaths == 2
MaxLogLines == 1
MaxLines == 3
MaxIncludeLines == 2
MaxDepth == 3

(* ------------------------------ float64 ------------------------------- *)
Abs(i) == IF i < 0 THEN -i ELSE i

Sgn(i) == IF i < 0 THEN -1 ELSE IF i > 0 THEN 1 ELSE 0

RECURSIVE GCD(_, _)
GCD(a, b) == IF b = 0 THEN a ELSE GCD(b, a % b)

\* the finite float64 value n/d (d # 0), in lowest terms with d > 0
Fin(n, d) ==
    LET g == GCD(Abs(n), Abs(d))
    IN  [k |-> "fin", n |-> (Sgn(d) * n) \div g, d |-> Abs(d) \div g]

PosInf == [k |-> "+Inf", n |-> 0, d |-> 1]
NegInf == [k |-> "-Inf", n |-> 0, d |-> 1]
NaN == [k |-> "NaN", n |-> 0, d |-> 1]

\* float64(i)
FromInt(i) == Fin(i, 1)

\* a reading of u/MBUnits MB
MB(u) == Fin(u, MBUnits)

\* a / b on float64 (IEEE 754: x/0 is an infinity, 0/0 is NaN)
FDiv(a, b) ==
    IF a.k = "NaN" \/ b.k = "NaN" THEN NaN
    ELSE IF a.k # "fin" /\ b.k # "fin" THEN NaN
    ELSE IF a.k # "fin"
         THEN IF (a.k = "+Inf") = (b.n >= 0) THEN PosInf ELSE NegInf
    ELSE IF b.k # "fin" THEN Fin(0, 1)
    ELSE IF b.n = 0
         THEN IF a.n = 0 THEN NaN ELSE IF a.n > 0 THEN PosInf ELSE NegInf
    ELSE Fin(a.n * b.d, a.d * b.n)

\* a * b on float64
FMul(a, b) ==
    IF a.k = "NaN" \/ b.k = "NaN" THEN NaN
    ELSE IF a.k = "fin" /\ b.k = "fin" THEN Fin(a.n * b.n, a.d * b.d)
    ELSE LET sa == IF a.k = "fin" THEN Sgn(a.n) ELSE IF a.k = "+Inf" THEN 1 ELSE -1
             sb == IF b.k = "fin" THEN Sgn(b.n) ELSE IF b.k = "+Inf" THEN 1 ELSE -1
         IN  IF sa * sb = 0 THEN NaN ELSE IF sa * sb > 0 THEN PosInf ELSE NegInf

\* a + b on float64
FAdd(a, b) ==
    IF a.k = "NaN" \/ b.k = "NaN" THEN NaN
    ELSE IF a.k = "fin" /\ b.k = "fin" THEN Fin(a.n * b.d + b.n * a.d, a.d * b.d)
    ELSE IF a.k = "fin" THEN b
    ELSE IF b.k = "fin" \/ a.k = b.k THEN a
    ELSE NaN

\* a < b on float64 (false if either is NaN)
FLess(a, b) ==
    IF a.k = "NaN" \/ b.k = "NaN" THEN FALSE
    ELSE IF a.k = "fin" /\ b.k = "fin" THEN a.n * b.d < b.n * a.d
    ELSE IF a.k = b.k THEN FALSE
    ELSE a.k = "-Inf" \/ b.k = "+Inf"

\* the largest and the smallest int, as far as the model needs them: above
\* and below every number the bounds can produce
MaxInt == 2^30
MinInt == -(2^30)

\* The builds: a float64 -> int conversion of a value that int cannot hold
\* is implementation-dependent in Go.  amd64 yields the smallest int for
\* every such value; arm64 saturates and turns NaN into 0.
Archs == {"amd64", "arm64"}

\* int(f): truncation toward zero
ToInt(f, arch) ==
    IF f.k = "fin"
    THEN IF f.n >= 0 THEN f.n \div f.d ELSE -((-f.n) \div f.d)
    ELSE IF arch = "amd64" THEN MinInt
    ELSE IF f.k = "+Inf" THEN MaxInt
    ELSE IF f.k = "-Inf" THEN MinInt
    ELSE 0

(* ------------------------------ inputs -------------------------------- *)
MPMModels == {"prefork", "worker", "event"}

ApacheConfig ==
    [MaxClients : -1..MaxLimit, MaxRequestWorkers : -1..MaxLimit, MPMModel : MPMModels]

SystemInfo == [AvailableMemoryMB : (-MaxDeficit)..MaxAvailable]

\* The statistics handed to the engine.  The engine accepts any MemoryStats
\* value (the tests pass records with only some fields set), so the largest
\* reading, the count (no process, or MaxProcs of them) and the other
\* statistics (unset, or those of readings of 1/MBUnits MB) are drawn
\* independently.
MemoryStats ==
    { [SmallestMB |-> MB(s),
       LargestMB |-> MB(u),
       AverageMB |-> MB(s),
       TotalMB |-> MB(s * c),
       ProcessCount |-> c] :
         u \in -1..MBUnits, c \in {0, MaxProcs}, s \in 0..1 }

\* a process as the analysis reads it: its resident memory in MB, which is
\* positive for a running Apache worker
ProcessInfo == [MemoryMB : {MB(u) : u \in 1..MBUnits}]

\* the lists of n processes
RECURSIVE ListsOfLength(_)
ListsOfLength(n) ==
    IF n = 0 THEN {<<>>}
    ELSE {Append(l, proc) : l \in ListsOfLength(n - 1), proc \in ProcessInfo}

\* the lists of at most MaxReadings processes
ProcessLists == UNION {ListsOfLength(n) : n \in 0..MaxReadings}

\* the statusInfo argument: nil or a server-status snapshot
StatusInfos == {"nil", "snapshot"}

VHostCounts == 0..MaxLimit

(* ------------------------------ config -------------------------------- *)
GetCurrentMaxClients_nodefault(c) ==
    IF c.MaxRequestWorkers > 0 THEN c.MaxRequestWorkers
    ELSE IF c.MaxClients > 0 THEN c.MaxClients
    ELSE 0

GetCurrentMaxClients_maxClientsFirst(c) ==
    IF c.MaxClients > 0 THEN c.MaxClients
    ELSE IF c.MaxRequestWorkers > 0 THEN c.MaxRequestWorkers
    ELSE 256

GetCurrentMaxClients(c) ==
    IF c.MaxRequestWorkers > 0 THEN c.MaxRequestWorkers
    ELSE IF c.MaxClients > 0 THEN c.MaxClients
    ELSE 256

\* the configuration main falls back to when no config file can be parsed
GetDefaults ==
    [MaxClients |-> 256, MaxRequestWorkers |-> 256, MPMModel |-> "prefork"]

(* ----------------------------- analysis ------------------------------- *)
ErrorRecord_defaults ==
    [CurrentMaxClients |-> 256, RecommendedMaxClients |-> 0,
     MinRecommended |-> 0, MaxRecommended |-> 0,
     Status |-> "ERROR", Message |-> "No processes to analyze",
     UtilizationPercent |-> FromInt(0), VHostWarning |-> FALSE, MPMNote |-> <<>>]

\* the zero value of Recommendations with Status and Message set
ErrorRecord ==
    [CurrentMaxClients |-> 0, RecommendedMaxClients |-> 0,
     MinRecommended |-> 0, MaxRecommended |-> 0,
     Status |-> "ERROR", Message |-> "No processes to analyze",
     UtilizationPercent |-> FromInt(0), VHostWarning |-> FALSE, MPMNote |-> <<>>]

\* &MemoryStats{ProcessCount: 0}: every other field has its zero value
emptyStats ==
    [SmallestMB |-> FromInt(0), LargestMB |-> FromInt(0), AverageMB |-> FromInt(0),
     TotalMB |-> FromInt(0), ProcessCount |-> 0]

initialStats_zero(processes) ==
    [SmallestMB |-> FromInt(0), LargestMB |-> FromInt(0), AverageMB |-> FromInt(0),
     TotalMB |-> FromInt(0), ProcessCount |-> Len(processes)]

\* the stats before the loop: smallest and largest are the first reading
initialStats(processes) ==
    [SmallestMB |-> processes[1].MemoryMB, LargestMB |-> processes[1].MemoryMB,
     AverageMB |-> FromInt(0), TotalMB |-> FromInt(0),
     ProcessCount |-> Len(processes)]

\* one iteration of the loop over the processes; TotalMB holds totalMemory
loopBody(stats, proc) ==
    [stats EXCEPT
        !.TotalMB = FAdd(stats.TotalMB, proc.MemoryMB),
        !.SmallestMB = IF FLess(proc.MemoryMB, stats.SmallestMB)
                       THEN proc.MemoryMB ELSE stats.SmallestMB,
        !.LargestMB = IF FLess(stats.LargestMB, proc.MemoryMB)
                      THEN proc.MemoryMB ELSE stats.LargestMB]

\* the loop over processes[i..]
RECURSIVE rangeLoop(_, _, _)
rangeLoop(stats, processes, i) ==
    IF i > Len(processes) THEN stats
    ELSE rangeLoop(loopBody(stats, processes[i]), processes, i + 1)

CalculateMemoryStats_noEmptyCase(processes) ==
    LET stats == IF Len(processes) = 0 THEN emptyStats
                 ELSE rangeLoop(initialStats(processes), processes, 1)
    IN  [stats EXCEPT
            !.AverageMB = FDiv(stats.TotalMB, FromInt(Len(processes)))]

CalculateMemoryStats(processes) ==
    IF Len(processes) = 0 THEN emptyStats
    ELSE LET stats == rangeLoop(initialStats(processes), processes, 1)
         IN  [stats EXCEPT
                 !.AverageMB = FDiv(stats.TotalMB, FromInt(Len(processes)))]

\* largestMB := memStats.LargestMB
largestMB_average(memStats) == memStats.AverageMB

largestMB_smallest(memStats) == memStats.SmallestMB

largestMB(memStats) == memStats.LargestMB

maxRecommended_offByOne(sysInfo, largest, arch) ==
    ToInt(FDiv(FromInt(sysInfo.AvailableMemoryMB), largest), arch) + 1

\* int(float64(sysInfo.AvailableMemoryMB) / largestMB)
maxRecommended(sysInfo, largest, arch) ==
    ToInt(FDiv(FromInt(sysInfo.AvailableMemoryMB), largest), arch)

minRecommended_110(sysInfo, largest, arch) ==
    ToInt(FMul(FDiv(FromInt(sysInfo.AvailableMemoryMB), largest), Fin(11, 10)), arch)

\* int(float64(sysInfo.AvailableMemoryMB) / largestMB * 0.9)
minRecommended(sysInfo, largest, arch) ==
    ToInt(FMul(FDiv(FromInt(sysInfo.AvailableMemoryMB), largest), Fin(9, 10)), arch)

\* (float64(currentMaxClients) * largestMB / float64(AvailableMemoryMB)) * 100
utilizationPercent(sysInfo, largest, currentMaxClients) ==
    FMul(FDiv(FMul(FromInt(currentMaxClients), largest),
              FromInt(sysInfo.AvailableMemoryMB)),
         FromInt(100))

vhostWarning_atLeast(vhostCount, maxRec) == vhostCount >= maxRec

vhostWarning(vhostCount, maxRec) == vhostCount > maxRec

mpmNote_anyModel(config) ==
    <<"Apache is running in ", config.MPMModel,
      " mode. Check manually for backend processes such as PHP-FPM and pm.max_children.">>

\* a string built by concatenation is the sequence of its pieces; "" is <<>>
mpmNote(config) ==
    IF config.MPMModel = "worker" \/ config.MPMModel = "event"
    THEN <<"Apache is running in ", config.MPMModel,
           " mode. Check manually for backend processes such as PHP-FPM and pm.max_children.">>
    ELSE <<>>

status_strict(currentMaxClients, minRec, maxRec) ==
    IF currentMaxClients < minRec THEN "OK"
    ELSE IF currentMaxClients < maxRec THEN "WARNING"
    ELSE "CRITICAL"

status_swapped(currentMaxClients, minRec, maxRec) ==
    IF currentMaxClients <= minRec THEN "OK"
    ELSE IF currentMaxClients <= maxRec THEN "CRITICAL"
    ELSE "WARNING"

\* the if / else if / else chain of GenerateEnhancedRecommendations
status(currentMaxClients, minRec, maxRec) ==
    IF currentMaxClients <= minRec THEN "OK"
    ELSE IF currentMaxClients <= maxRec THEN "WARNING"
    ELSE "CRITICAL"

message(currentMaxClients, minRec, maxRec) ==
    IF currentMaxClients <= minRec THEN "Configuration appears acceptable"
    ELSE IF currentMaxClients <= maxRec
    THEN "Configuration is on the high side but acceptable"
    ELSE "Consider reducing MaxClients/MaxRequestWorkers to avoid memory issues"

recommendedMaxClients_noMargin(sysInfo, largest, arch) ==
    ToInt(FDiv(FromInt(sysInfo.AvailableMemoryMB), largest), arch)

\* int(float64(sysInfo.AvailableMemoryMB) / largestMB * 0.9), as
\* GenerateRecommendations computes it
recommendedMaxClients(sysInfo, largest, arch) ==
    ToInt(FMul(FDiv(FromInt(sysInfo.AvailableMemoryMB), largest), Fin(9, 10)), arch)

basicStatus_strict(currentMaxClients, recommended) ==
    IF currentMaxClients < recommended THEN "OK" ELSE "HIGH"

\* the if / else of GenerateRecommendations
basicStatus(currentMaxClients, recommended) ==
    IF currentMaxClients <= recommended THEN "OK" ELSE "HIGH"

GenerateRecommendations(sysInfo, memStats, config, arch) ==
    IF memStats.ProcessCount = 0 THEN ErrorRecord
    ELSE
      LET largest == largestMB(memStats)
          recommended == recommendedMaxClients(sysInfo, largest, arch)
          currentMaxClients == GetCurrentMaxClients(config)
          ok == basicStatus(currentMaxClients, recommended) = "OK"
      IN  [CurrentMaxClients |-> currentMaxClients,
           RecommendedMaxClients |-> recommended,
           MinRecommended |-> 0, MaxRecommended |-> 0,
           Status |-> basicStatus(currentMaxClients, recommended),
           Message |-> IF ok THEN "Configuration appears acceptable"
                       ELSE "Consider reducing MaxClients/MaxRequestWorkers",
           UtilizationPercent |-> utilizationPercent(sysInfo, largest, currentMaxClients),
           VHostWarning |-> FALSE, MPMNote |-> <<>>]

GenerateEnhancedRecommendations_recommendsMax(sysInfo, memStats, config, statusInfo, vhostCount, arch) ==
    IF memStats.ProcessCount = 0 THEN ErrorRecord
    ELSE
      LET largest == largestMB(memStats)
          maxRec == maxRecommended(sysInfo, largest, arch)
          minRec == minRecommended(sysInfo, largest, arch)
          currentMaxClients == GetCurrentMaxClients(config)
      IN  [CurrentMaxClients |-> currentMaxClients,
           RecommendedMaxClients |-> maxRec,
           MinRecommended |-> minRec,
           MaxRecommended |-> maxRec,
           Status |-> status(currentMaxClients, minRec, maxRec),
           Message |-> message(currentMaxClients, minRec, maxRec),
           UtilizationPercent |-> utilizationPercent(sysInfo, largest, currentMaxClients),
           VHostWarning |-> vhostWarning(vhostCount, maxRec),
           MPMNote |-> mpmNote(config)]

GenerateEnhancedRecommendations(sysInfo, memStats, config, statusInfo, vhostCount, arch) ==
    IF memStats.ProcessCount = 0 THEN ErrorRecord
    ELSE
      LET largest == largestMB(memStats)
          maxRec == maxRecommended(sysInfo, largest, arch)
          minRec == minRecommended(sysInfo, largest, arch)
          currentMaxClients == GetCurrentMaxClients(config)
      IN  [CurrentMaxClients |-> currentMaxClients,
           RecommendedMaxClients |-> minRec,
           MinRecommended |-> minRec,
           MaxRecommended |-> maxRec,
           Status |-> status(currentMaxClients, minRec, maxRec),
           Message |-> message(currentMaxClients, minRec, maxRec),
           UtilizationPercent |-> utilizationPercent(sysInfo, largest, currentMaxClients),
           VHostWarning |-> vhostWarning(vhostCount, maxRec),
           MPMNote |-> mpmNote(config)]

(* ------------------------------- state -------------------------------- *)
VARIABLES
    sysInfo,      \* the SystemInfo handed to the engine
    memStats,     \* the MemoryStats handed to the engine
    config,       \* the ApacheConfig handed to the engine
    statusInfo,   \* the server-status argument
    vhostCount,   \* the virtual host count
    arch,         \* the build the program runs as
    called,       \* the function of the latest call, "none" before the first
    rec,          \* the record the latest call returned
    prev,         \* what the call before the latest was given and returned
    processes,    \* the list of Apache worker processes
    DebugEnabled, \* the toggle of package debug
    debugOutput,  \* the lines the latest operation wrote to the debug logger
    pc,           \* the position of main, "none" where main is not running
    exitCode,     \* the exit code of the process, -1 while there is none
    logError,     \* the error logs.CreateLogEntry returned
    frame,        \* the locals of a GenerateEnhancedRecommendations call in progress
    services,     \* the detection of the other services by main
    history,      \* /var/log/apache2buddy.log and the calls that write and read it
    logs,         \* a call of logs.AnalyzeApacheLogs
    parse         \* a call of config.parseConfigFile

vars == <<sysInfo, memStats, config, statusInfo, vhostCount, arch, called, rec, prev,
          processes, DebugEnabled, debugOutput, pc, exitCode, logError,
          frame, services, history, logs, parse>>

others == <<frame, services, history, logs, parse>>

\* none of the other parts of the program is running
NoOthers ==
    /\ frame = [pc |-> "none"]
    /\ services = [pc |-> "none"]
    /\ history = [pc |-> "none"]
    /\ logs = [pc |-> "none"]
    /\ parse = [pc |-> "none"]

mainState == <<pc, exitCode, logError>>

\* main is not running: the functions are called directly
NoMain ==
    /\ pc = "none"
    /\ exitCode = -1
    /\ logError = "none"

NoRecord == [Status |-> "none"]
NoCall == [changed |-> "none"]

Init ==
    /\ sysInfo \in SystemInfo
    /\ memStats \in MemoryStats
    /\ config \in ApacheConfig \cup {GetDefaults}
    /\ statusInfo \in StatusInfos
    /\ vhostCount \in VHostCounts
    /\ arch \in Archs
    /\ called = "none"
    /\ rec = NoRecord
    /\ prev = NoCall
    /\ processes = <<>>
    /\ DebugEnabled = FALSE
    /\ debugOutput = <<>>
    /\ NoMain
    /\ NoOthers

inputs == <<sysInfo, memStats, config, statusInfo, vhostCount, arch>>

\* the state the engine does not touch when it is called on a MemoryStats
\* value while debugging is off
untouched == <<processes, DebugEnabled, debugOutput, mainState, others>>

\* rec := GenerateRecommendations(sysInfo, memStats, config)
CallGenerateRecommendations ==
    /\ called = "none"
    /\ rec' = GenerateRecommendations(sysInfo, memStats, config, arch)
    /\ called' = "GenerateRecommendations"
    /\ UNCHANGED <<inputs, prev, untouched>>

\* rec := GenerateEnhancedRecommendations(sysInfo, memStats, config, statusInfo, vhostCount)
CallGenerateEnhancedRecommendations ==
    /\ called = "none"
    /\ rec' = GenerateEnhancedRecommendations(sysInfo, memStats, config, statusInfo, vhostCount, arch)
    /\ called' = "GenerateEnhancedRecommendations"
    /\ UNCHANGED <<inputs, prev, untouched>>

Next ==
    \/ CallGenerateRecommendations
    \/ CallGenerateEnhancedRecommendations

Spec == Init /\ [][Next]_vars

(* --------------------------- repeated calls --------------------------- *)
\* The package keeps no state between calls, so a further call is the same
\* function applied to the arguments of that call.  After a first call of
\* GenerateEnhancedRecommendations that returned a verdict the caller calls
\* it a second time with one of the arguments replaced by another value;
\* prev keeps the arguments and the record of the first call.
CallAgain(what, m, c, st, v) ==
    /\ called = "GenerateEnhancedRecommendations"
    /\ rec.Status # "ERROR"
    /\ prev = NoCall
    /\ <<m, c, st, v>> # <<memStats, config, statusInfo, vhostCount>>
    /\ prev' = [changed |-> what, sysInfo |-> sysInfo, memStats |-> memStats,
                config |-> config, statusInfo |-> statusInfo,
                vhostCount |-> vhostCount, rec |-> rec]
    /\ memStats' = m
    /\ config' = c
    /\ statusInfo' = st
    /\ vhostCount' = v
    /\ rec' = GenerateEnhancedRecommendations(sysInfo, m, c, st, v, arch)
    /\ UNCHANGED <<sysInfo, arch, called, untouched>>

CallAgainWithMaxRequestWorkers ==
    \E n \in -1..MaxLimit :
        CallAgain("MaxRequestWorkers", memStats, [config EXCEPT !.MaxRequestWorkers = n],
                  statusInfo, vhostCount)

CallAgainWithMaxClients ==
    \E n \in -1..MaxLimit :
        CallAgain("MaxClients", memStats, [config EXCEPT !.MaxClients = n],
                  statusInfo, vhostCount)

CallAgainWithMPMModel ==
    \E mpm \in MPMModels :
        CallAgain("MPMModel", memStats, [config EXCEPT !.MPMModel = mpm],
                  statusInfo, vhostCount)

\* the same processes with another largest reading
CallAgainWithLargestMB ==
    \E m \in MemoryStats :
        /\ m.ProcessCount = memStats.ProcessCount
        /\ m.SmallestMB = memStats.SmallestMB
        /\ CallAgain("LargestMB", m, config, statusInfo, vhostCount)

\* the same processes with the same largest reading and other statistics
CallAgainWithOtherStats ==
    \E m \in MemoryStats :
        /\ m.ProcessCount = memStats.ProcessCount
        /\ m.LargestMB = memStats.LargestMB
        /\ CallAgain("otherStats", m, config, statusInfo, vhostCount)

CallAgainWithStatusInfo ==
    \E st \in StatusInfos : CallAgain("statusInfo", memStats, config, st, vhostCount)

CallAgainWithVHostCount ==
    \E v \in VHostCounts : CallAgain("vhostCount", memStats, config, statusInfo, v)

NextRepeated ==
    \/ CallGenerateRecommendations
    \/ CallGenerateEnhancedRecommendations
    \/ CallAgainWithMaxRequestWorkers
    \/ CallAgainWithMaxClients
    \/ CallAgainWithMPMModel
    \/ CallAgainWithLargestMB
    \/ CallAgainWithOtherStats
    \/ CallAgainWithStatusInfo
    \/ CallAgainWithVHostCount

SpecRepeated == Init /\ [][NextRepeated]_vars

(* ------------------------- the two classifiers ------------------------ *)
\* After a call of GenerateRecommendations the caller hands the same
\* arguments to GenerateEnhancedRecommendations; prev keeps the record of
\* GenerateRecommendations.
CallEnhancedOnSameArguments ==
    /\ called = "GenerateRecommendations"
    /\ prev = NoCall
    /\ prev' = [changed |-> "function", sysInfo |-> sysInfo, memStats |-> memStats,
                config |-> config, statusInfo |-> statusInfo,
                vhostCount |-> vhostCount, rec |-> rec]
    /\ rec' = GenerateEnhancedRecommendations(sysInfo, memStats, config, statusInfo,
                                              vhostCount, arch)
    /\ called' = "GenerateEnhancedRecommendations"
    /\ UNCHANGED <<inputs, untouched>>

NextCompared ==
    \/ CallGenerateRecommendations
    \/ CallEnhancedOnSameArguments

SpecCompared == Init /\ [][NextCompared]_vars

(* ------------------------------ pipeline ------------------------------ *)
\* The two steps main takes once the processes are listed: the statistics
\* of the list, then the record.  A caller may run the two steps again, on
\* other arguments and then on the first arguments once more, and may turn
\* debugging on and off at any time; prev keeps the first run.  The first
\* run is one of a prefork server with no virtual host configured, no
\* MaxClients directive and no server status; a run in between has one more
\* or one less process, another MaxRequestWorkers, a server status or
\* another virtual host count.
NoStats == [computed |-> FALSE]

InitPipeline ==
    /\ processes \in ProcessLists
    /\ sysInfo \in SystemInfo
    /\ config \in {c \in ApacheConfig : c.MaxClients = 0 /\ c.MPMModel = "prefork"}
                   \cup {GetDefaults}
    /\ statusInfo = "nil"
    /\ vhostCount = 0
    /\ arch \in Archs
    /\ memStats = NoStats
    /\ called = "none"
    /\ rec = NoRecord
    /\ prev = NoCall
    /\ DebugEnabled = FALSE
    /\ debugOutput = <<>>
    /\ NoMain
    /\ NoOthers

\* debug.Enable()
Enable ==
    /\ DebugEnabled' = TRUE
    /\ debugOutput' = <<"Debug mode enabled">>
    /\ UNCHANGED <<inputs, processes, called, rec, prev, mainState, others>>

\* debug.Disable()
Disable ==
    /\ DebugEnabled' = FALSE
    /\ debugOutput' = <<>>
    /\ UNCHANGED <<inputs, processes, called, rec, prev, mainState, others>>

pipelineStats_keepsLargest ==
    LET stats == CalculateMemoryStats(processes)
    IN  IF memStats # NoStats /\ FLess(stats.LargestMB, memStats.LargestMB)
        THEN [stats EXCEPT !.LargestMB = memStats.LargestMB]
        ELSE stats

\* memStats := analysis.CalculateMemoryStats(processes)
pipelineStats == CalculateMemoryStats(processes)

CallCalculateMemoryStats ==
    /\ called = "none"
    /\ memStats' = pipelineStats
    /\ called' = "CalculateMemoryStats"
    /\ debugOutput' = <<>>
    /\ UNCHANGED <<sysInfo, config, statusInfo, vhostCount, arch, processes,
                   rec, prev, DebugEnabled, mainState, others>>

\* what config.GetCurrentMaxClients writes through debug.Trace and
\* debug.Printf while debugging is on
traceOfGetCurrentMaxClients ==
    <<"ENTER: ApacheConfig.GetCurrentMaxClients",
      IF config.MaxRequestWorkers > 0 THEN "Using MaxRequestWorkers"
      ELSE IF config.MaxClients > 0 THEN "Using MaxClients"
      ELSE "Using default: 256",
      "EXIT: ApacheConfig.GetCurrentMaxClients">>

\* recommendations := analysis.GenerateEnhancedRecommendations(...)
CallPipelineRecommendations ==
    /\ called = "CalculateMemoryStats"
    /\ rec' = GenerateEnhancedRecommendations(sysInfo, memStats, config, statusInfo,
                                              vhostCount, arch)
    /\ called' = "GenerateEnhancedRecommendations"
    /\ debugOutput' = IF DebugEnabled /\ memStats.ProcessCount > 0
                      THEN traceOfGetCurrentMaxClients
                      ELSE <<>>
    /\ UNCHANGED <<inputs, processes, prev, DebugEnabled, mainState, others>>

firstRun(what, again) ==
    [changed |-> what, again |-> again, processes |-> processes, sysInfo |-> sysInfo,
     config |-> config, statusInfo |-> statusInfo, vhostCount |-> vhostCount,
     DebugEnabled |-> DebugEnabled, memStats |-> memStats, rec |-> rec]

\* after the first run: other arguments for a run in between
OtherArguments(what, p, c, st, v) ==
    /\ called = "GenerateEnhancedRecommendations"
    /\ prev = NoCall
    /\ <<p, c, st, v>> # <<processes, config, statusInfo, vhostCount>>
    /\ prev' = firstRun(what, FALSE)
    /\ processes' = p
    /\ config' = c
    /\ statusInfo' = st
    /\ vhostCount' = v
    /\ called' = "none"
    /\ debugOutput' = <<>>
    /\ UNCHANGED <<sysInfo, arch, memStats, rec, DebugEnabled, mainState, others>>

OneMoreProcess ==
    /\ Len(processes) < MaxReadings
    /\ \E proc \in ProcessInfo :
           OtherArguments("processes", Append(processes, proc), config, statusInfo,
                          vhostCount)

OneProcessLess ==
    /\ processes # <<>>
    /\ OtherArguments("processes", Tail(processes), config, statusInfo, vhostCount)

OtherMaxRequestWorkers ==
    \E n \in -1..MaxLimit :
        OtherArguments("MaxRequestWorkers", processes,
                       [config EXCEPT !.MaxRequestWorkers = n], statusInfo, vhostCount)

OtherStatusInfo ==
    \E st \in StatusInfos : OtherArguments("statusInfo", processes, config, st, vhostCount)

OtherVHostCount ==
    \E v \in VHostCounts : OtherArguments("vhostCount", processes, config, statusInfo, v)

\* after the first run, or after the run in between: the arguments of the
\* first run once more
SameArguments ==
    /\ called = "GenerateEnhancedRecommendations"
    /\ \/ /\ prev = NoCall
          /\ prev' = firstRun("nothing", TRUE)
          /\ UNCHANGED <<processes, config, statusInfo, vhostCount>>
       \/ /\ prev # NoCall /\ ~prev.again
          /\ prev' = [prev EXCEPT !.again = TRUE]
          /\ processes' = prev.processes
          /\ config' = prev.config
          /\ statusInfo' = prev.statusInfo
          /\ vhostCount' = prev.vhostCount
    /\ called' = "none"
    /\ debugOutput' = <<>>
    /\ UNCHANGED <<sysInfo, arch, memStats, rec, DebugEnabled, mainState, others>>

NextPipeline ==
    \/ CallCalculateMemoryStats
    \/ CallPipelineRecommendations
    \/ Enable
    \/ Disable
    \/ OneMoreProcess
    \/ OneProcessLess
    \/ OtherMaxRequestWorkers
    \/ OtherStatusInfo
    \/ OtherVHostCount
    \/ SameArguments

SpecPipeline == InitPipeline /\ [][NextPipeline]_vars

(* -------------------------------- main -------------------------------- *)
\* main from the discovery of the Apache processes on.  The system
\* information, the configuration, the server status and the virtual host
\* count are collected by then; the run is one without the debug flag.
\* What is printed is not part of the state.
InitMain ==
    /\ processes \in ProcessLists
    /\ sysInfo \in SystemInfo
    /\ config \in ApacheConfig \cup {GetDefaults}
    /\ statusInfo = "nil"
    /\ vhostCount = 0
    /\ arch \in Archs
    /\ memStats = NoStats
    /\ called = "none"
    /\ rec = NoRecord
    /\ prev = NoCall
    /\ DebugEnabled = FALSE
    /\ debugOutput = <<>>
    /\ pc = "FindApacheProcesses"
    /\ exitCode = -1
    /\ logError = "none"
    /\ NoOthers

collected == <<sysInfo, config, statusInfo, vhostCount, arch, processes, prev, others,
               DebugEnabled, debugOutput>>

noProcesses_never(found) == FALSE

\* len(processes) == 0
noProcesses(found) == Len(found) = 0

\* processes, err := process.FindApacheProcesses(): log.Fatalf on an error,
\* log.Fatal if no process is found; both end the process with code 1
MainFindApacheProcesses ==
    /\ pc = "FindApacheProcesses"
    /\ \E err \in {"nil", "failed"} :
           IF err # "nil"
           THEN pc' = "fatal: failed to find Apache processes" /\ exitCode' = 1
           ELSE IF noProcesses(processes)
           THEN pc' = "fatal: no Apache worker processes found" /\ exitCode' = 1
           ELSE pc' = "CalculateMemoryStats" /\ UNCHANGED exitCode
    /\ UNCHANGED <<collected, memStats, called, rec, logError>>

\* memStats := analysis.CalculateMemoryStats(processes)
MainCalculateMemoryStats ==
    /\ pc = "CalculateMemoryStats"
    /\ memStats' = CalculateMemoryStats(processes)
    /\ called' = "CalculateMemoryStats"
    /\ pc' = "GenerateEnhancedRecommendations"
    /\ UNCHANGED <<collected, rec, exitCode, logError>>

\* recommendations := analysis.GenerateEnhancedRecommendations(...)
MainGenerateEnhancedRecommendations ==
    /\ pc = "GenerateEnhancedRecommendations"
    /\ rec' = GenerateEnhancedRecommendations(sysInfo, memStats, config, statusInfo,
                                              vhostCount, arch)
    /\ called' = "GenerateEnhancedRecommendations"
    /\ pc' = "DisplayEnhancedResults"
    /\ UNCHANGED <<collected, memStats, exitCode, logError>>

\* output.DisplayEnhancedResults(...)
MainDisplayEnhancedResults ==
    /\ pc = "DisplayEnhancedResults"
    /\ pc' = "CreateLogEntry"
    /\ UNCHANGED <<collected, memStats, called, rec, exitCode, logError>>

\* the results of logs.CreateLogEntry: the entry is written, the log file
\* cannot be opened or written, or the write takes more than 5 seconds
LogErrors == {"nil", "open or write failed", "log creation timed out"}

\* if err := logs.CreateLogEntry(...); err != nil { debug.Warn(...) }
MainCreateLogEntry ==
    /\ pc = "CreateLogEntry"
    /\ logError' \in LogErrors
    /\ pc' = "exit"
    /\ UNCHANGED <<collected, memStats, called, rec, exitCode>>

\* switch recommendations.Status
exitCodeFor(st) ==
    CASE st = "OK" -> 0
      [] st = "WARNING" -> 1
      [] st = "CRITICAL" -> 2
      [] OTHER -> 0

MainExit ==
    /\ pc = "exit"
    /\ exitCode' = exitCodeFor(rec.Status)
    /\ pc' = "exited"
    /\ UNCHANGED <<collected, memStats, called, rec, logError>>

NextMain ==
    \/ MainFindApacheProcesses
    \/ MainCalculateMemoryStats
    \/ MainGenerateEnhancedRecommendations
    \/ MainDisplayEnhancedResults
    \/ MainCreateLogEntry
    \/ MainExit

SpecMain == InitMain /\ [][NextMain]_vars

(* ------------------------------- stages ------------------------------- *)
\* main with the call of GenerateEnhancedRecommendations taken statement by
\* statement; frame holds the locals of the call and, in done, the blocks
\* of the function body that have run.  The blocks are named after what
\* they compute: the range (Estimator), the annotations (Annotator), the
\* status (Classifier) and the returned record (Builder).
blockAfter_classifierFirst(block) ==
    CASE block = "Estimator" -> "currentMaxClients"
      [] block = "currentMaxClients" -> "Classifier"
      [] block = "Classifier" -> "Annotator"
      [] block = "Annotator" -> "Builder"
      [] OTHER -> "returned"

\* the order of the blocks in the function body
blockAfter(block) ==
    CASE block = "Estimator" -> "currentMaxClients"
      [] block = "currentMaxClients" -> "Annotator"
      [] block = "Annotator" -> "Classifier"
      [] block = "Classifier" -> "Builder"
      [] OTHER -> "returned"

mainAround == <<sysInfo, memStats, config, statusInfo, vhostCount, arch, processes,
                prev, DebugEnabled, debugOutput, exitCode, logError,
                services, history, logs, parse>>

\* if memStats.ProcessCount == 0 { return ERROR }
StageEnter ==
    /\ pc = "GenerateEnhancedRecommendations"
    /\ frame.pc = "none"
    /\ IF memStats.ProcessCount = 0
       THEN /\ rec' = ErrorRecord
            /\ called' = "GenerateEnhancedRecommendations"
            /\ pc' = "DisplayEnhancedResults"
            /\ frame' = [pc |-> "returned", done |-> <<>>]
       ELSE /\ frame' = [pc |-> "Estimator", done |-> <<>>]
            /\ UNCHANGED <<rec, called, pc>>
    /\ UNCHANGED mainAround

\* largestMB, maxRecommended and minRecommended
StageEstimator ==
    /\ frame.pc = "Estimator"
    /\ LET largest == largestMB(memStats)
       IN  frame' = [pc |-> blockAfter("Estimator"),
                     done |-> Append(frame.done, "Estimator"),
                     largestMB |-> largest,
                     maxRecommended |-> maxRecommended(sysInfo, largest, arch),
                     minRecommended |-> minRecommended(sysInfo, largest, arch)]
    /\ UNCHANGED <<mainAround, rec, called, pc>>

\* currentMaxClients, potentialUsage and utilizationPercent
StageCurrentMaxClients ==
    /\ frame.pc = "currentMaxClients"
    /\ LET current == GetCurrentMaxClients(config)
       IN  frame' = [pc |-> blockAfter("currentMaxClients"),
                     done |-> frame.done,
                     largestMB |-> frame.largestMB,
                     maxRecommended |-> frame.maxRecommended,
                     minRecommended |-> frame.minRecommended,
                     currentMaxClients |-> current,
                     utilizationPercent |->
                         utilizationPercent(sysInfo, frame.largestMB, current),
                     status |-> "", message |-> "",
                     vhostWarning |-> FALSE, mpmNote |-> <<>>]
    /\ UNCHANGED <<mainAround, rec, called, pc>>

\* vhostWarning and mpmNote
StageAnnotator ==
    /\ frame.pc = "Annotator"
    /\ frame' = [frame EXCEPT
                     !.pc = blockAfter("Annotator"),
                     !.done = Append(frame.done, "Annotator"),
                     !.vhostWarning = vhostWarning(vhostCount, frame.maxRecommended),
                     !.mpmNote = mpmNote(config)]
    /\ UNCHANGED <<mainAround, rec, called, pc>>

\* status and message
StageClassifier ==
    /\ frame.pc = "Classifier"
    /\ frame' = [frame EXCEPT
                     !.pc = blockAfter("Classifier"),
                     !.done = Append(frame.done, "Classifier"),
                     !.status = status(frame.currentMaxClients, frame.minRecommended,
                                       frame.maxRecommended),
                     !.message = message(frame.currentMaxClients, frame.minRecommended,
                                         frame.maxRecommended)]
    /\ UNCHANGED <<mainAround, rec, called, pc>>

\* return &Recommendations{...}
StageBuilder ==
    /\ frame.pc = "Builder"
    /\ rec' = [CurrentMaxClients |-> frame.currentMaxClients,
               RecommendedMaxClients |-> frame.minRecommended,
               MinRecommended |-> frame.minRecommended,
               MaxRecommended |-> frame.maxRecommended,
               Status |-> frame.status,
               Message |-> frame.message,
               UtilizationPercent |-> frame.utilizationPercent,
               VHostWarning |-> frame.vhostWarning,
               MPMNote |-> frame.mpmNote]
    /\ called' = "GenerateEnhancedRecommendations"
    /\ pc' = "DisplayEnhancedResults"
    /\ frame' = [frame EXCEPT !.pc = blockAfter("Builder"),
                              !.done = Append(frame.done, "Builder")]
    /\ UNCHANGED mainAround

NextStages ==
    \/ MainFindApacheProcesses
    \/ MainCalculateMemoryStats
    \/ StageEnter
    \/ StageEstimator
    \/ StageCurrentMaxClients
    \/ StageAnnotator
    \/ StageClassifier
    \/ StageBuilder
    \/ MainDisplayEnhancedResults
    \/ MainCreateLogEntry
    \/ MainExit

SpecStages == InitMain /\ [][NextStages]_vars

(* ------------------------------ services ------------------------------ *)
\* main from the detection of co-located services to the engine.  services
\* holds the available memory as GetInfo measured it and the OtherServices
\* map of the SystemInfo (a function from the detected names to MB).  Two
\* of the service names of DetectServices stand for all of them.
ServiceNames == {"MySQL", "PHP-FPM"}

\* what int(totalMemory) of one service can be; -1 stands for a service
\* with no process (totalMemory = 0, no entry)
ServiceReadings == -1..MaxServiceMB

RECURSIVE SumOver(_, _)
SumOver(m, names) ==
    IF names = {} THEN 0
    ELSE LET n == CHOOSE x \in names : TRUE
         IN  m[n] + SumOver(m, names \ {n})

GetTotalOtherServicesMemory(OtherServices) ==
    SumOver(OtherServices, DOMAIN OtherServices \ {"PHP-FPM-Note"})

\* m with m[name] = value
Put(m, name, value) ==
    [n \in DOMAIN m \cup {name} |-> IF n = name THEN value ELSE m[n]]

InitServices ==
    /\ sysInfo \in {si \in SystemInfo : si.AvailableMemoryMB >= 0}
    /\ memStats \in {ms \in MemoryStats : ms.ProcessCount > 0 /\ ms.LargestMB.n > 0}
    /\ config \in {c \in ApacheConfig : c.MaxClients = 0}
    /\ statusInfo = "nil"
    /\ vhostCount = 0
    /\ arch \in Archs
    /\ called = "none"
    /\ rec = NoRecord
    /\ prev = NoCall
    /\ processes = <<>>
    /\ DebugEnabled = FALSE
    /\ debugOutput = <<>>
    /\ NoMain
    /\ frame = [pc |-> "none"]
    /\ history = [pc |-> "none"]
    /\ logs = [pc |-> "none"]
    /\ parse = [pc |-> "none"]
    /\ services = [pc |-> "DetectServices",
                   measured |-> sysInfo.AvailableMemoryMB,
                   OtherServices |-> << >>]

aroundServices == <<memStats, config, statusInfo, vhostCount, arch, prev, processes,
                    DebugEnabled, debugOutput, mainState, frame, history, logs, parse>>

\* DetectServices: an entry for every service whose processes use memory
ServicesDetectServices ==
    /\ services.pc = "DetectServices"
    /\ \E totalMemory \in [ServiceNames -> ServiceReadings] :
           services' = [services EXCEPT
               !.pc = "DetectPHPFPM",
               !.OtherServices =
                   [n \in {x \in ServiceNames : totalMemory[x] >= 0} |-> totalMemory[n]]]
    /\ UNCHANGED <<sysInfo, rec, called, aroundServices>>

\* DetectPHPFPM: measures the PHP-FPM processes again and overwrites the
\* entry; the marker entry is added for worker and event
ServicesDetectPHPFPM ==
    /\ services.pc = "DetectPHPFPM"
    /\ \E phpfpmMemory \in ServiceReadings :
           services' = [services EXCEPT
               !.pc = "GetTotalOtherServicesMemory",
               !.OtherServices =
                   IF phpfpmMemory >= 0
                   THEN LET counted == Put(services.OtherServices, "PHP-FPM", phpfpmMemory)
                        IN  IF config.MPMModel \in {"worker", "event"}
                            THEN Put(counted, "PHP-FPM-Note", -1)
                            ELSE counted
                   ELSE services.OtherServices]
    /\ UNCHANGED <<sysInfo, rec, called, aroundServices>>

\* if totalOtherMemory > 0 { sysInfo.AvailableMemoryMB -= totalOtherMemory }
adjusted(available, totalOtherMemory) ==
    IF totalOtherMemory > 0 THEN available - totalOtherMemory ELSE available

ServicesAdjust ==
    /\ services.pc = "GetTotalOtherServicesMemory"
    /\ LET totalOtherMemory == GetTotalOtherServicesMemory(services.OtherServices)
       IN  sysInfo' = [sysInfo EXCEPT
               !.AvailableMemoryMB = adjusted(sysInfo.AvailableMemoryMB, totalOtherMemory)]
    /\ services' = [services EXCEPT !.pc = "GenerateEnhancedRecommendations"]
    /\ UNCHANGED <<rec, called, aroundServices>>

\* the engine is called with the adjusted SystemInfo
ServicesGenerate ==
    /\ services.pc = "GenerateEnhancedRecommendations"
    /\ rec' = GenerateEnhancedRecommendations(sysInfo, memStats, config, statusInfo,
                                              vhostCount, arch)
    /\ called' = "GenerateEnhancedRecommendations"
    /\ services' = [services EXCEPT !.pc = "handed"]
    /\ UNCHANGED <<sysInfo, aroundServices>>

NextServices ==
    \/ ServicesDetectServices
    \/ ServicesDetectPHPFPM
    \/ ServicesAdjust
    \/ ServicesGenerate

SpecServices == InitServices /\ [][NextServices]_vars

(* ------------------------------ history ------------------------------- *)
\* The history log /var/log/apache2buddy.log over several runs of the tool.
\* history.text is the content of the file as a sequence of pieces, each the
\* body of an entry or the newline "\n"; history.exists tells whether the
\* file is there.  A run of the tool ends with CreateLogEntry; a run with
\* -history N calls GetRecentLogEntries(N).
NL == [piece |-> "\n"]

\* %.2f of a non-negative value: hundredths, rounded to nearest, ties to even
Fixed2(f) ==
    LET twice == (2 * 100 * f.n) \div f.d
        exact == (2 * 100 * f.n) % f.d = 0
        low == twice \div 2
    IN  IF twice % 2 = 0 THEN low
        ELSE IF exact THEN (IF low % 2 = 0 THEN low ELSE low + 1)
        ELSE low + 1

\* the entry without its final newline
logEntry(timestamp, si, ms, c, r) ==
    [piece |-> "entry",
     timestamp |-> timestamp,
     Memory |-> si.AvailableMemoryMB,
     MaxClients |-> GetCurrentMaxClients(c),
     Recommended |-> r.RecommendedMaxClients,
     Status |-> r.Status,
     Smallest |-> Fixed2(ms.SmallestMB),
     Avg |-> Fixed2(ms.AverageMB),
     Largest |-> Fixed2(ms.LargestMB),
     MPM |-> c.MPMModel]

\* bufio.Scanner with ScanLines: the lines of the text, each without its
\* newline; a last piece without a newline is a line too
RECURSIVE ScanFrom(_, _, _, _)
ScanFrom(text, i, line, lines) ==
    IF i > Len(text)
    THEN (IF line = << >> THEN lines ELSE Append(lines, line))
    ELSE IF text[i].piece = NL.piece
         THEN ScanFrom(text, i + 1, << >>, Append(lines, line))
         ELSE ScanFrom(text, i + 1, Append(line, text[i]), lines)

ScanLines(text) == ScanFrom(text, 1, << >>, << >>)

lastLines_first(lines, count) ==
    IF Len(lines) > count THEN SubSeq(lines, 1, count) ELSE lines

\* if len(lines) > count { lines[len(lines)-count:] } else { lines }
lastLines(lines, count) ==
    IF Len(lines) > count THEN SubSeq(lines, Len(lines) - count + 1, Len(lines)) ELSE lines

HistoryConfigs ==
    {c \in ApacheConfig : c.MaxClients = 0 /\ c.MaxRequestWorkers > 0 /\ c.MPMModel = "prefork"}

InitHistory ==
    /\ sysInfo = [AvailableMemoryMB |-> MaxLimit]
    /\ memStats = CalculateMemoryStats(<<[MemoryMB |-> MB(MBUnits)]>>)
    /\ config = GetDefaults
    /\ statusInfo = "nil"
    /\ vhostCount = 0
    /\ arch \in Archs
    /\ called = "none"
    /\ rec = NoRecord
    /\ prev = NoCall
    /\ processes = <<>>
    /\ DebugEnabled = FALSE
    /\ debugOutput = <<>>
    /\ NoMain
    /\ frame = [pc |-> "none"]
    /\ services = [pc |-> "none"]
    /\ logs = [pc |-> "none"]
    /\ parse = [pc |-> "none"]
    /\ history = [pc |-> "start", exists |-> FALSE, text |-> << >>, now |-> 0, runs |-> 0]

aroundHistory == <<memStats, statusInfo, vhostCount, arch, prev, processes,
                   DebugEnabled, debugOutput, mainState, frame, services, logs, parse>>

\* a run of the tool up to CreateLogEntry.  The file is opened with
\* O_APPEND|O_CREATE and the entry written with one WriteString; the open
\* can fail, and the call can time out with the goroutine writing the
\* entry, or not, before the process ends.
HistoryCreateLogEntry ==
    /\ history.runs < MaxHistory
    /\ \E c \in HistoryConfigs, passed \in {0, 1},
          outcome \in {"written", "open failed", "timed out", "timed out, written"} :
         LET r == GenerateEnhancedRecommendations(sysInfo, memStats, c, statusInfo,
                                                  vhostCount, arch)
             timestamp == history.now + passed
             entry == logEntry(timestamp, sysInfo, memStats, c, r)
             written == outcome \in {"written", "timed out, written"}
         IN  /\ config' = c
             /\ rec' = r
             /\ called' = "GenerateEnhancedRecommendations"
             /\ history' =
                    [pc |-> "CreateLogEntry",
                     exists |-> history.exists \/ outcome # "open failed",
                     text |-> IF written THEN history.text \o <<entry, NL>>
                              ELSE history.text,
                     now |-> timestamp,
                     runs |-> history.runs + 1,
                     before |-> ScanLines(history.text),
                     entry |-> entry,
                     err |-> CASE outcome = "written" -> "nil"
                               [] outcome = "open failed" -> "open failed"
                               [] OTHER -> "log creation timed out"]
    /\ UNCHANGED <<sysInfo, aroundHistory>>

\* a run with -history count: GetRecentLogEntries(count)
HistoryGetRecentLogEntries ==
    /\ history.pc # "GetRecentLogEntries"
    /\ \E count \in 1..(MaxHistory + 1), timely \in BOOLEAN :
         history' =
             [pc |-> "GetRecentLogEntries",
              exists |-> history.exists,
              text |-> history.text,
              now |-> history.now,
              runs |-> history.runs,
              follows |-> IF history.pc = "CreateLogEntry" THEN history.err ELSE "none",
              entry |-> IF history.pc = "CreateLogEntry" THEN history.entry ELSE << >>,
              before |-> IF history.pc = "CreateLogEntry" THEN history.before ELSE << >>,
              count |-> count,
              lines |-> IF history.exists /\ timely
                        THEN lastLines(ScanLines(history.text), count) ELSE << >>,
              err |-> IF ~timely THEN "reading log entries timed out"
                      ELSE IF ~history.exists THEN "open failed" ELSE "nil"]
    /\ UNCHANGED <<sysInfo, config, rec, called, aroundHistory>>

NextHistory ==
    \/ HistoryCreateLogEntry
    \/ HistoryGetRecentLogEntries

SpecHistory == InitHistory /\ [][NextHistory]_vars

(* -------------------------------- logs --------------------------------- *)
\* AnalyzeApacheLogs with its goroutines.  logs.files is what is found at
\* the candidate paths (the first MaxLogPaths of the four), logs.analysis
\* the LogAnalysis all goroutines share, logs.workers the goroutine started
\* for each path, logs.pc the position of AnalyzeApacheLogs itself.
LogPaths == 1..MaxLogPaths

LogLines == {"server reached MaxClients", "PHP Fatal error", "other"}

\* what can be at a path: nothing, a symlink into /dev, a pipe, a symlink
\* to a pipe that has no writer (opening it does not complete), or a regular
\* file whose reading ends with or without an error
LogFiles ==
    { [kind |-> k, lines |-> << >>, err |-> "nil"] :
        k \in {"missing", "link to /dev", "pipe", "link to pipe"} }
    \cup
    { [kind |-> "regular", lines |-> l, err |-> e] :
        l \in UNION {[1..n -> LogLines] : n \in 0..MaxLogLines},
        e \in {"nil", "read error"} }

maxLines == 1000
maxRecentErrors == 5

emptyAnalysis ==
    [MaxClientsExceeded |-> 0, PHPFatalErrors |-> 0, RecentErrors |-> << >>,
     AnalyzedLines |-> 0]

idleWorker == [pc |-> "none", linesRead |-> 0, tmp |-> 0]

InitLogs ==
    /\ sysInfo = [AvailableMemoryMB |-> MaxLimit]
    /\ memStats = NoStats
    /\ config = GetDefaults
    /\ statusInfo = "nil"
    /\ vhostCount = 0
    /\ arch = "amd64"
    /\ called = "none"
    /\ rec = NoRecord
    /\ prev = NoCall
    /\ processes = <<>>
    /\ DebugEnabled = FALSE
    /\ debugOutput = <<>>
    /\ NoMain
    /\ frame = [pc |-> "none"]
    /\ services = [pc |-> "none"]
    /\ history = [pc |-> "none"]
    /\ parse = [pc |-> "none"]
    /\ \E files \in [LogPaths -> LogFiles] :
          logs = [pc |-> "isReadableLogFile",
                  path |-> 1,
                  files |-> files,
                  analysis |-> emptyAnalysis,
                  workers |-> [p \in LogPaths |-> idleWorker],
                  timeouts |-> 0,
                  returned |-> emptyAnalysis]

aroundLogs == <<sysInfo, memStats, config, statusInfo, vhostCount, arch, called, rec,
                prev, processes, DebugEnabled, debugOutput, mainState, frame, services,
                history, parse>>

\* Lstat, Readlink and the mode tests of isReadableLogFile
looksReadable(file) == file.kind \in {"regular", "link to pipe"}

\* os.Open returns
opens(file) == file.kind # "link to pipe"

\* the loop goes on with the next path, or ends and returns analysis
nextPath(l) ==
    IF l.path < MaxLogPaths
    THEN [l EXCEPT !.pc = "isReadableLogFile", !.path = l.path + 1]
    ELSE [l EXCEPT !.pc = "returned", !.path = l.path + 1, !.returned = l.analysis]

\* if !isReadableLogFile(logPath) { continue }; otherwise the goroutine for
\* the path is started.  The call is made by AnalyzeApacheLogs itself: when
\* os.Open does not return, nothing happens.
LogsIsReadableLogFile ==
    /\ logs.pc = "isReadableLogFile"
    /\ LET file == logs.files[logs.path]
       IN  IF ~looksReadable(file)
           THEN logs' = nextPath(logs)
           ELSE /\ opens(file)
                /\ logs' = [logs EXCEPT
                       !.pc = "select",
                       !.workers[logs.path] = [idleWorker EXCEPT !.pc = "os.Open"]]
    /\ UNCHANGED aroundLogs

\* case err := <-done
LogsDone ==
    /\ logs.pc = "select"
    /\ logs.workers[logs.path].pc = "sent"
    /\ logs' = IF logs.files[logs.path].err = "nil"
               THEN [logs EXCEPT !.pc = "returned", !.returned = logs.analysis]
               ELSE nextPath(logs)
    /\ UNCHANGED aroundLogs

\* case <-ctx.Done(): the five seconds pass before the goroutine has sent
LogsTimeout ==
    /\ logs.pc = "select"
    /\ logs.workers[logs.path].pc # "sent"
    /\ logs' = [nextPath(logs) EXCEPT !.timeouts = logs.timeouts + 1]
    /\ UNCHANGED aroundLogs

\* the goroutine of path p still has statements of analyzeLogFile to run
running(w) == w.pc \notin {"none", "sent"}

\* one step of analyzeLogFile(logPath, analysis) in the goroutine of path p.
\* The increments are a read and a write of the shared field.
analyzeLogFile(p) ==
    LET w == logs.workers[p]
        file == logs.files[p]
        a == logs.analysis
    IN  /\ running(w)
        /\ logs' =
             CASE w.pc = "os.Open" ->
                    [logs EXCEPT !.workers[p].pc = "Scan"]
               [] w.pc = "Scan" ->
                    IF w.linesRead < Len(file.lines) /\ w.linesRead < maxLines
                    THEN LET line == file.lines[w.linesRead + 1]
                         IN  [logs EXCEPT
                                !.workers[p].linesRead = w.linesRead + 1,
                                !.workers[p].tmp =
                                    CASE line = "server reached MaxClients" ->
                                           a.MaxClientsExceeded
                                      [] line = "PHP Fatal error" -> a.PHPFatalErrors
                                      [] OTHER -> 0,
                                !.workers[p].pc =
                                    CASE line = "server reached MaxClients" ->
                                           "MaxClientsExceeded++"
                                      [] line = "PHP Fatal error" -> "PHPFatalErrors++"
                                      [] OTHER -> "Scan"]
                    ELSE [logs EXCEPT !.workers[p].pc = "AnalyzedLines"]
               [] w.pc = "MaxClientsExceeded++" ->
                    [logs EXCEPT !.workers[p].pc = "Scan",
                                 !.analysis.MaxClientsExceeded = w.tmp + 1]
               [] w.pc = "PHPFatalErrors++" ->
                    [logs EXCEPT
                        !.workers[p].pc = "Scan",
                        !.analysis.PHPFatalErrors = w.tmp + 1,
                        !.analysis.RecentErrors =
                            IF Len(a.RecentErrors) < maxRecentErrors
                            THEN Append(a.RecentErrors, file.lines[w.linesRead])
                            ELSE a.RecentErrors]
               [] w.pc = "AnalyzedLines" ->
                    [logs EXCEPT !.workers[p].pc = "done <-",
                                 !.analysis.AnalyzedLines = w.linesRead]
               [] OTHER ->
                    [logs EXCEPT !.workers[p].pc = "sent"]
        /\ UNCHANGED aroundLogs

NextLogs ==
    \/ LogsIsReadableLogFile
    \/ LogsDone
    \/ LogsTimeout
    \/ \E p \in LogPaths : analyzeLogFile(p)

SpecLogs == InitLogs /\ [][NextLogs]_vars

\* every statement that can run is run eventually: the goroutines are
\* scheduled and AnalyzeApacheLogs goes on whenever its call or its select
\* can complete
SpecLogsFair ==
    /\ SpecLogs
    /\ WF_vars(LogsIsReadableLogFile)
    /\ WF_vars(LogsDone \/ LogsTimeout)
    /\ \A p \in LogPaths : WF_vars(analyzeLogFile(p))

(* ------------------------------- parse --------------------------------- *)
\* config.Parse from the call of parseConfigFile on.  parse.files are the
\* configuration files (file 1 is the main file), each a sequence of lines;
\* a line is what the tests of the loop make of it: an <IfModule line with
\* the module it names, a </IfModule> line, an Include line with the file
\* it names, or a directive with its value and whether Atoi accepts it.
\* parse.stack holds the calls of parseConfigFile that have not returned,
\* parse.config the ApacheConfig they all write to.
ConfigFiles == {1, 2}

Line(kind, name, integer, value) ==
    [kind |-> kind, name |-> name, integer |-> integer, value |-> value]

IfModuleLines ==
    {Line("<IfModule", m, FALSE, 0) :
        m \in {"mpm_prefork", "mpm_worker", "mpm_event", "!mpm_prefork", "mod_ssl"}}
    \cup {Line("</IfModule>", "", FALSE, 0)}

DirectiveLines ==
    {Line("directive", d, TRUE, v) :
        d \in {"MaxClients", "MaxRequestWorkers", "ServerLimit", "ThreadsPerChild"},
        v \in 0..MaxLimit}
    \cup {Line("directive", "MaxClients", FALSE, 0)}

\* the lines of a file without Include
FileLines == IfModuleLines \cup DirectiveLines

\* the lines of the files that include each other: the limits are positive
IncludeLines ==
    {Line("Include", "", FALSE, f) : f \in ConfigFiles}
    \cup {Line("directive", d, TRUE, v) :
            d \in {"MaxClients", "MaxRequestWorkers"}, v \in 1..MaxLimit}
    \cup {Line("<IfModule", "mpm_worker", FALSE, 0)}

FilesOf(lines, n) == UNION {[1..k -> lines] : k \in 0..n}

\* the section an <IfModule line enters; "" when it enters none
entered(name) ==
    CASE name = "mpm_prefork" -> "prefork"
      [] name = "mpm_worker" -> "worker"
      [] name = "mpm_event" -> "event"
      [] OTHER -> ""

tryGetApacheDefaults(mpmModel, buildInfo) ==
    IF buildInfo
    THEN CASE mpmModel = "prefork" -> 256
           [] mpmModel \in {"worker", "event"} -> 400
           [] OTHER -> 256
    ELSE 0

newCall(f) == [file |-> f, next |-> 1, inMPMSection |-> FALSE, currentMPM |-> ""]

InitParseWith(files) ==
    /\ sysInfo = [AvailableMemoryMB |-> MaxLimit]
    /\ memStats = NoStats
    /\ config = GetDefaults
    /\ statusInfo = "nil"
    /\ vhostCount = 0
    /\ arch = "amd64"
    /\ called = "none"
    /\ rec = NoRecord
    /\ prev = NoCall
    /\ processes = <<>>
    /\ DebugEnabled = FALSE
    /\ debugOutput = <<>>
    /\ NoMain
    /\ frame = [pc |-> "none"]
    /\ services = [pc |-> "none"]
    /\ history = [pc |-> "none"]
    /\ logs = [pc |-> "none"]
    /\ \E fs \in files, buildInfo \in BOOLEAN, limit \in {"open files", "stack"} :
          parse = [pc |-> "parseConfigFile",
                   files |-> fs,
                   buildInfo |-> buildInfo,
                   limit |-> limit,
                   stack |-> <<newCall(1)>>,
                   parsed |-> {1},
                   config |-> [MaxClients |-> 0, MaxRequestWorkers |-> 0,
                               ServerLimit |-> 0, ThreadsPerChild |-> 0,
                               MPMModel |-> "prefork"]]

\* one file, no Include
InitParseFile ==
    InitParseWith({[f \in ConfigFiles |-> IF f = 1 THEN l ELSE << >>] :
                      l \in FilesOf(FileLines, MaxLines)})

\* files that can include each other and themselves
InitParseIncludes ==
    InitParseWith([ConfigFiles -> FilesOf(IncludeLines, MaxIncludeLines)])

aroundParse == <<sysInfo, memStats, config, statusInfo, vhostCount, arch, called, rec,
                 prev, processes, DebugEnabled, debugOutput, mainState, frame, services,
                 history, logs>>

\* the switch on the directive
setDirective(c, call, line) ==
    CASE line.name \in {"MaxClients", "MaxRequestWorkers"} ->
           [c EXCEPT ![line.name] = line.value,
                     !.MPMModel = IF call.inMPMSection THEN call.currentMPM ELSE @]
      [] line.name \in {"ServerLimit", "ThreadsPerChild"} ->
           [c EXCEPT ![line.name] = line.value]
      [] OTHER -> c

\* one iteration of the scanner loop in the innermost call.  An Include
\* line calls parseConfigFile on the named file: the call opens the file and
\* starts its own loop, unless MaxDepth calls are already open, where the
\* open fails (the error is dropped by the caller) or the stack is
\* exhausted, whichever limit the host reaches first.
ParseLine ==
    /\ parse.pc = "parseConfigFile"
    /\ LET depth == Len(parse.stack)
           call == parse.stack[depth]
           lines == parse.files[call.file]
       IN  /\ call.next <= Len(lines)
           /\ LET line == lines[call.next]
                  after == [call EXCEPT !.next = call.next + 1]
              IN  parse' =
                    CASE line.kind = "Include" ->
                           IF depth < MaxDepth
                           THEN [parse EXCEPT
                                   !.stack = Append([parse.stack EXCEPT ![depth] = after],
                                                    newCall(line.value)),
                                   !.parsed = parse.parsed \cup {line.value}]
                           ELSE IF parse.limit = "open files"
                           THEN [parse EXCEPT !.stack[depth] = after]
                           ELSE [parse EXCEPT !.pc = "fatal: stack overflow"]
                      [] line.kind = "<IfModule" ->
                           IF entered(line.name) # ""
                           THEN [parse EXCEPT !.stack[depth] =
                                   [after EXCEPT !.inMPMSection = TRUE,
                                                 !.currentMPM = entered(line.name)]]
                           ELSE [parse EXCEPT !.stack[depth] = after]
                      [] line.kind = "</IfModule>" ->
                           [parse EXCEPT !.stack[depth] =
                               [after EXCEPT !.inMPMSection = FALSE, !.currentMPM = ""]]
                      [] OTHER ->
                           IF line.integer
                           THEN [parse EXCEPT
                                   !.stack[depth] = after,
                                   !.config = setDirective(parse.config, call, line)]
                           ELSE [parse EXCEPT !.stack[depth] = after]
    /\ UNCHANGED aroundParse

\* if config.MaxClients == 0 && config.MaxRequestWorkers == 0 { ... }
fillIn(c, buildInfo) ==
    IF c.MaxClients = 0 /\ c.MaxRequestWorkers = 0
          /\ tryGetApacheDefaults(c.MPMModel, buildInfo) > 0
    THEN [c EXCEPT !.MaxRequestWorkers = tryGetApacheDefaults(c.MPMModel, buildInfo)]
    ELSE c

\* the end of the file in the innermost call: the defaults are tried and the
\* call returns to the loop of its caller
ParseReturn ==
    /\ parse.pc = "parseConfigFile"
    /\ LET depth == Len(parse.stack)
           call == parse.stack[depth]
       IN  /\ call.next > Len(parse.files[call.file])
           /\ parse' = [parse EXCEPT
                  !.config = fillIn(parse.config, parse.buildInfo),
                  !.stack = SubSeq(parse.stack, 1, depth - 1),
                  !.pc = IF depth = 1 THEN "returned" ELSE "parseConfigFile"]
    /\ UNCHANGED aroundParse

NextParse ==
    \/ ParseLine
    \/ ParseReturn

SpecParseFile == InitParseFile /\ [][NextParse]_vars

SpecParseIncludes == InitParseIncludes /\ [][NextParse]_vars

\* a call that can go on does go on
SpecParseIncludesFair == SpecParseIncludes /\ WF_vars(NextParse)

(* ----------------------------- properties ----------------------------- *)
Enhanced == called = "GenerateEnhancedRecommendations"

currentLimit == GetCurrentMaxClients(config)

\* C1: with ProcessCount > 0 the severity of GenerateEnhancedRecommendations
\* is OK iff currentLimit <= min, WARNING iff min < currentLimit <= max and
\* CRITICAL iff currentLimit > max, min and max being the range of the record.
C1_ThreeRegions ==
    (Enhanced /\ memStats.ProcessCount > 0) =>
        /\ rec.Status \in {"OK", "WARNING", "CRITICAL"}
        /\ (rec.Status = "OK") <=> (currentLimit <= rec.MinRecommended)
        /\ (rec.Status = "WARNING") <=>
               (rec.MinRecommended < currentLimit /\ currentLimit <= rec.MaxRecommended)
        /\ (rec.Status = "CRITICAL") <=> (currentLimit > rec.MaxRecommended)

\* a limit that equals the upper end of the range is a WARNING
C1_Witness ==
    /\ Enhanced /\ memStats.ProcessCount > 0
    /\ rec.Status = "WARNING"
    /\ currentLimit = rec.MaxRecommended
    /\ rec.MinRecommended < rec.MaxRecommended

\* q = floor(a / l), for a finite l > 0 and an integer a
IsFloorOfQuotient(q, a, l) ==
    /\ q * l.n <= a * l.d
    /\ a * l.d < (q + 1) * l.n

\* q = floor(a / l * 0.9), for a finite l > 0 and an integer a
IsFloorOfNineTenths(q, a, l) ==
    /\ q * 10 * l.n <= 9 * a * l.d
    /\ 9 * a * l.d < (q + 1) * 10 * l.n

C3_NoProcesses ==
    (called # "none" /\ memStats.ProcessCount = 0) =>
        /\ rec.Status = "ERROR"
        /\ rec.Message = "No processes to analyze"
        /\ rec.CurrentMaxClients = 0
        /\ rec.RecommendedMaxClients = 0
        /\ rec.MinRecommended = 0
        /\ rec.MaxRecommended = 0
        /\ rec.UtilizationPercent = [k |-> "fin", n |-> 0, d |-> 1]
        /\ rec.VHostWarning = FALSE
        /\ rec.MPMNote = <<>>

\* no processes, while every other argument is away from its zero value
C3_Witness ==
    /\ called = "GenerateEnhancedRecommendations"
    /\ memStats.ProcessCount = 0
    /\ rec.Status = "ERROR"
    /\ sysInfo.AvailableMemoryMB > 0
    /\ memStats.LargestMB.n > 0
    /\ config.MaxRequestWorkers > 0
    /\ config.MPMModel = "worker"
    /\ vhostCount > 0

Rank(st) == IF st = "OK" THEN 0 ELSE IF st = "WARNING" THEN 1 ELSE 2

Classified(r) == r.Status \in {"OK", "WARNING", "CRITICAL"}

\* C4: for two calls with the same range {min, max} and limits c1 <= c2 the
\* severity for c1 is not higher than the severity for c2.
C4_MonotonicInLimit ==
    (/\ prev # NoCall
     /\ Classified(prev.rec) /\ Classified(rec)
     /\ prev.rec.MinRecommended = rec.MinRecommended
     /\ prev.rec.MaxRecommended = rec.MaxRecommended) =>
        /\ (prev.rec.CurrentMaxClients <= rec.CurrentMaxClients
               => Rank(prev.rec.Status) <= Rank(rec.Status))
        /\ (rec.CurrentMaxClients <= prev.rec.CurrentMaxClients
               => Rank(rec.Status) <= Rank(prev.rec.Status))

\* the second call has a larger limit and a higher severity
C4_Witness ==
    /\ prev # NoCall
    /\ Classified(prev.rec) /\ Classified(rec)
    /\ prev.rec.MinRecommended = rec.MinRecommended
    /\ prev.rec.MaxRecommended = rec.MaxRecommended
    /\ prev.rec.CurrentMaxClients < rec.CurrentMaxClients
    /\ prev.rec.Status = "WARNING"
    /\ rec.Status = "CRITICAL"

\* C5: for availableMB > 0 and largestMB > 0 the range has min <= max.
C5_RangeOrdered ==
    (/\ Enhanced
     /\ memStats.ProcessCount > 0
     /\ sysInfo.AvailableMemoryMB > 0
     /\ memStats.LargestMB.n > 0) =>
        rec.MinRecommended <= rec.MaxRecommended

\* the largest quotient of the model, where 110% would pass the upper end
C5_Witness ==
    /\ Enhanced
    /\ memStats.ProcessCount > 0
    /\ sysInfo.AvailableMemoryMB = MaxAvailable
    /\ memStats.LargestMB = MB(1)
    /\ rec.MaxRecommended = MaxAvailable * MBUnits
    /\ rec.MinRecommended < rec.MaxRecommended

\* C6: the record of GenerateEnhancedRecommendations has min >= 0, max >= 0
\* and min <= max, and min = max = 0 when availableMB <= 0.  Stated for the
\* records the engine computes from a positive largest reading and for the
\* error record.
C6_RangeClamped ==
    (Enhanced /\ (memStats.ProcessCount = 0 \/ memStats.LargestMB.n > 0)) =>
        /\ rec.MinRecommended >= 0
        /\ rec.MaxRecommended >= 0
        /\ rec.MinRecommended <= rec.MaxRecommended
        /\ (sysInfo.AvailableMemoryMB <= 0 =>
               rec.MinRecommended = 0 /\ rec.MaxRecommended = 0)

\* C7: with ProcessCount > 0 and largestMB <= 0 the record has severity
\* ERROR, never OK, WARNING or CRITICAL.
C7_NonPositiveLargestIsError ==
    (Enhanced /\ memStats.ProcessCount > 0 /\ memStats.LargestMB.n <= 0) =>
        rec.Status = "ERROR"

\* C8: with availableMB <= 0, ProcessCount > 0 and largestMB > 0 the severity
\* is CRITICAL for every configuration: the limit of the record is positive
\* and exceeds the upper end of the range.
C8_NoMemoryIsCritical ==
    (/\ Enhanced
     /\ sysInfo.AvailableMemoryMB <= 0
     /\ memStats.ProcessCount > 0
     /\ memStats.LargestMB.n > 0) =>
        /\ rec.Status = "CRITICAL"
        /\ rec.CurrentMaxClients > 0
        /\ rec.CurrentMaxClients > rec.MaxRecommended

\* no memory is left and the configuration sets neither directive
C8_Witness ==
    /\ Enhanced
    /\ sysInfo.AvailableMemoryMB = 0
    /\ memStats.ProcessCount > 0
    /\ memStats.LargestMB.n > 0
    /\ config.MaxRequestWorkers <= 0 /\ config.MaxClients <= 0
    /\ rec.MaxRecommended = 0
    /\ rec.Status = "CRITICAL"

\* C9: utilizationPercent = currentLimit * largestMB / availableMB * 100 when
\* availableMB > 0, and it is finite and not negative for every input.
\* Stated for the records computed from a positive largest reading.
C9_UtilizationFinite ==
    (Enhanced /\ memStats.ProcessCount > 0 /\ memStats.LargestMB.n > 0) =>
        /\ rec.UtilizationPercent.k = "fin"
        /\ rec.UtilizationPercent.n >= 0
        /\ (sysInfo.AvailableMemoryMB > 0 =>
               rec.UtilizationPercent.n * sysInfo.AvailableMemoryMB * memStats.LargestMB.d
                 = currentLimit * memStats.LargestMB.n * 100 * rec.UtilizationPercent.d)

SameRelevantArguments ==
    /\ prev.sysInfo.AvailableMemoryMB = sysInfo.AvailableMemoryMB
    /\ prev.memStats.LargestMB = memStats.LargestMB
    /\ prev.memStats.ProcessCount = memStats.ProcessCount
    /\ GetCurrentMaxClients(prev.config) = GetCurrentMaxClients(config)

\* C10: two calls of GenerateEnhancedRecommendations with the same
\* availableMB, largestMB, processCount and effective limit return the same
\* severity, min, max and recommended value, whatever the virtual host
\* count, the MPM, the server status and the other statistics are.
C10_SeverityIndependent ==
    (prev # NoCall /\ SameRelevantArguments) =>
        /\ rec.Status = prev.rec.Status
        /\ rec.MinRecommended = prev.rec.MinRecommended
        /\ rec.MaxRecommended = prev.rec.MaxRecommended
        /\ rec.RecommendedMaxClients = prev.rec.RecommendedMaxClients

\* the second call has another virtual host count, which flips the virtual
\* host warning of a WARNING record
C10_Witness ==
    /\ prev # NoCall /\ SameRelevantArguments
    /\ prev.changed = "vhostCount"
    /\ prev.vhostCount # vhostCount
    /\ prev.rec.VHostWarning # rec.VHostWarning
    /\ rec.Status = "WARNING"

\* C11: in a record of GenerateEnhancedRecommendations for ProcessCount > 0
\* the virtual host warning is set iff the virtual host count is greater
\* than the upper end of the range; a count equal to it gives no warning.
C11_VHostWarning ==
    (Enhanced /\ memStats.ProcessCount > 0) =>
        (rec.VHostWarning <=> (vhostCount > rec.MaxRecommended))

\* as many virtual hosts as the upper end of the range: no warning
C11_Witness ==
    /\ Enhanced /\ memStats.ProcessCount > 0
    /\ vhostCount > 0
    /\ vhostCount = rec.MaxRecommended
    /\ ~rec.VHostWarning

\* C12: the MPM note of a record is non-empty only for the worker and event
\* models, and then names the model; for prefork it is the empty string.
C12_MPMNote ==
    (called # "none") =>
        /\ (rec.MPMNote # <<>>) =>
               /\ config.MPMModel \in {"worker", "event"}
               /\ \E i \in 1..Len(rec.MPMNote) : rec.MPMNote[i] = config.MPMModel
        /\ (config.MPMModel = "prefork") => (rec.MPMNote = <<>>)

\* a record with a note, which names the event model
C12_Witness ==
    /\ Enhanced /\ memStats.ProcessCount > 0
    /\ config.MPMModel = "event"
    /\ Len(rec.MPMNote) = 3 /\ rec.MPMNote[2] = "event"

\* C13: a record of GenerateEnhancedRecommendations for ProcessCount > 0
\* carries the effective limit of the configuration as CurrentMaxClients,
\* the lower end of the range as RecommendedMaxClients and MinRecommended,
\* and int(availableMB / largestMB) as MaxRecommended.
C13_RecordAssembly ==
    (Enhanced /\ memStats.ProcessCount > 0) =>
        /\ rec.CurrentMaxClients =
               (IF config.MaxRequestWorkers > 0 THEN config.MaxRequestWorkers
                ELSE IF config.MaxClients > 0 THEN config.MaxClients ELSE 256)
        /\ rec.RecommendedMaxClients = rec.MinRecommended
        /\ rec.MinRecommended =
               ToInt(FMul(FDiv(FromInt(sysInfo.AvailableMemoryMB), memStats.LargestMB),
                          Fin(9, 10)), arch)
        /\ rec.MaxRecommended =
               ToInt(FDiv(FromInt(sysInfo.AvailableMemoryMB), memStats.LargestMB), arch)

\* the two ends of the range differ, and the recommendation is the lower one
C13_Witness ==
    /\ Enhanced /\ memStats.ProcessCount > 0
    /\ config.MaxRequestWorkers <= 0 /\ config.MaxClients > 0
    /\ rec.CurrentMaxClients = config.MaxClients
    /\ 0 < rec.MinRecommended /\ rec.MinRecommended < rec.MaxRecommended
    /\ rec.RecommendedMaxClients = rec.MinRecommended

\* C14: the limit a record reports is MaxRequestWorkers if that is positive,
\* else MaxClients if that is positive, else 256; it is always positive, and
\* for the configuration of GetDefaults it is 256 with the prefork model.
C14_EffectiveLimit ==
    (called # "none" /\ memStats.ProcessCount > 0) =>
        /\ (config.MaxRequestWorkers > 0) =>
               (rec.CurrentMaxClients = config.MaxRequestWorkers)
        /\ (config.MaxRequestWorkers <= 0 /\ config.MaxClients > 0) =>
               (rec.CurrentMaxClients = config.MaxClients)
        /\ (config.MaxRequestWorkers <= 0 /\ config.MaxClients <= 0) =>
               (rec.CurrentMaxClients = 256)
        /\ rec.CurrentMaxClients > 0
        /\ (config = GetDefaults) =>
               (rec.CurrentMaxClients = 256 /\ config.MPMModel = "prefork")

\* both directives are set to different values: MaxRequestWorkers wins
C14_Witness ==
    /\ called # "none" /\ memStats.ProcessCount > 0
    /\ config.MaxRequestWorkers > 0 /\ config.MaxClients > 0
    /\ config.MaxRequestWorkers # config.MaxClients
    /\ rec.CurrentMaxClients = config.MaxRequestWorkers

\* the number of 1/MBUnits MB in a reading
Units(f) == (f.n * MBUnits) \div f.d

\* the readings of a list, added up from its end, in 1/MBUnits MB
RECURSIVE SumOfUnits(_)
SumOfUnits(l) ==
    IF l = <<>> THEN 0
    ELSE Units(l[Len(l)].MemoryMB) + SumOfUnits(SubSeq(l, 1, Len(l) - 1))

\* a <= b for finite a and b
AtMost(a, b) == a.k = "fin" /\ b.k = "fin" /\ a.n * b.d <= b.n * a.d

StatsComputed == called = "CalculateMemoryStats"

\* C15: for a non-empty list CalculateMemoryStats returns the number of
\* readings, their sum, the sum divided by the number, the minimum and the
\* maximum reading, so that smallest <= average <= largest, and returns the
\* same for every order of the readings.
C15_StatsOfReadings ==
    (StatsComputed /\ processes # <<>>) =>
        /\ memStats.ProcessCount = Len(processes)
        /\ memStats.TotalMB = MB(SumOfUnits(processes))
        /\ memStats.AverageMB.k = "fin"
        /\ memStats.AverageMB.n * Len(processes) * memStats.TotalMB.d
               = memStats.TotalMB.n * memStats.AverageMB.d
        /\ \A i \in DOMAIN processes :
               /\ AtMost(memStats.SmallestMB, processes[i].MemoryMB)
               /\ AtMost(processes[i].MemoryMB, memStats.LargestMB)
        /\ \E i \in DOMAIN processes : memStats.SmallestMB = processes[i].MemoryMB
        /\ \E i \in DOMAIN processes : memStats.LargestMB = processes[i].MemoryMB
        /\ AtMost(memStats.SmallestMB, memStats.AverageMB)
        /\ AtMost(memStats.AverageMB, memStats.LargestMB)
        /\ \A p \in Permutations(DOMAIN processes) :
               CalculateMemoryStats([i \in DOMAIN processes |-> processes[p[i]]])
                   = memStats

\* the smaller reading comes last, and the average lies strictly between
\* the two readings
C15_Witness ==
    /\ StatsComputed /\ Len(processes) = 2
    /\ memStats.SmallestMB = processes[2].MemoryMB
    /\ memStats.LargestMB = processes[1].MemoryMB
    /\ memStats.SmallestMB.n > 0
    /\ memStats.SmallestMB # memStats.AverageMB
    /\ memStats.AverageMB # memStats.LargestMB

\* C16: for the empty list CalculateMemoryStats returns ProcessCount 0 and
\* 0 for the smallest, largest, average and total memory; the average is
\* not the NaN of a division by the count.
C16_StatsOfNoReadings ==
    (StatsComputed /\ processes = <<>>) =>
        /\ memStats.ProcessCount = 0
        /\ memStats.SmallestMB = FromInt(0)
        /\ memStats.LargestMB = FromInt(0)
        /\ memStats.AverageMB = FromInt(0)
        /\ memStats.TotalMB = FromInt(0)

\* the statistics of the empty list have been computed
C16_Witness ==
    /\ StatsComputed /\ processes = <<>>
    /\ memStats # NoStats
    /\ memStats.ProcessCount = 0
    /\ memStats.AverageMB.k = "fin"

SameArgumentsAgain ==
    /\ prev # NoCall /\ prev.again
    /\ processes = prev.processes
    /\ sysInfo = prev.sysInfo
    /\ config = prev.config
    /\ statusInfo = prev.statusInfo
    /\ vhostCount = prev.vhostCount

BothCalled == prev # NoCall /\ prev.changed = "function"

\* C18: on the same arguments GenerateRecommendations returns ERROR exactly
\* when GenerateEnhancedRecommendations does, OK exactly when it returns OK
\* and HIGH exactly when it returns WARNING or CRITICAL, and the two records
\* have the same CurrentMaxClients, RecommendedMaxClients and
\* UtilizationPercent.
C18_TwoTierAgrees ==
    BothCalled =>
        /\ prev.rec.Status \in {"ERROR", "OK", "HIGH"}
        /\ (prev.rec.Status = "ERROR") <=> (rec.Status = "ERROR")
        /\ (prev.rec.Status = "OK") <=> (rec.Status = "OK")
        /\ (prev.rec.Status = "HIGH") <=> (rec.Status \in {"WARNING", "CRITICAL"})
        /\ prev.rec.CurrentMaxClients = rec.CurrentMaxClients
        /\ prev.rec.RecommendedMaxClients = rec.RecommendedMaxClients
        /\ prev.rec.UtilizationPercent = rec.UtilizationPercent

\* the limit equals the lower end of the range, which is below the upper
\* end: both say OK
C18_Witness ==
    /\ BothCalled
    /\ prev.rec.Status = "OK" /\ rec.Status = "OK"
    /\ rec.CurrentMaxClients = rec.MinRecommended
    /\ rec.MinRecommended < rec.MaxRecommended
    /\ rec.UtilizationPercent.n > 0

Basic == called = "GenerateRecommendations"

C20_ExitCode ==
    (pc = "exited") =>
        /\ (exitCode = 0) <=> (rec.Status = "OK")
        /\ (exitCode = 1) <=> (rec.Status = "WARNING")
        /\ (exitCode = 2) <=> (rec.Status = "CRITICAL")

\* the log file could not be written and the run ends with code 2
C20_Witness ==
    /\ pc = "exited"
    /\ logError = "open or write failed"
    /\ rec.Status = "CRITICAL"
    /\ exitCode = 2

\* C21: when the discovery succeeds and finds no Apache worker process, the
\* run does not end in an abort: it ends with a record of status ERROR
\* and its message.
C21_VerdictForNoProcesses ==
    (/\ Len(processes) = 0
     /\ pc \in {"fatal: no Apache worker processes found", "exited"}) =>
        /\ pc = "exited"
        /\ rec.Status = "ERROR"
        /\ rec.Message = "No processes to analyze"

\* C26: for ProcessCount > 0, largestMB > 0 and availableMB > 0 a record of
\* GenerateEnhancedRecommendations is OK or WARNING only if currentLimit *
\* largestMB <= availableMB, is CRITICAL exactly if currentLimit *
\* largestMB > availableMB, and is OK only if the recommended value is at
\* least currentLimit.
C26_NonCriticalFits ==
    (/\ Enhanced
     /\ memStats.ProcessCount > 0
     /\ memStats.LargestMB.n > 0
     /\ sysInfo.AvailableMemoryMB > 0) =>
        LET fits == rec.CurrentMaxClients * memStats.LargestMB.n
                        <= sysInfo.AvailableMemoryMB * memStats.LargestMB.d
        IN  /\ (rec.Status \in {"OK", "WARNING"}) => fits
            /\ (rec.Status = "CRITICAL") <=> ~fits
            /\ (rec.Status = "OK") =>
                   (fits /\ rec.RecommendedMaxClients >= rec.CurrentMaxClients)

\* a WARNING whose limit uses all of the available memory
C26_Witness ==
    /\ Enhanced /\ memStats.ProcessCount > 0
    /\ memStats.LargestMB.n > 0 /\ sysInfo.AvailableMemoryMB > 0
    /\ rec.Status = "WARNING"
    /\ rec.CurrentMaxClients * memStats.LargestMB.n
           = sysInfo.AvailableMemoryMB * memStats.LargestMB.d

\* s is a prefix of t
IsPrefix(s, t) == Len(s) <= Len(t) /\ s = SubSeq(t, 1, Len(s))

InEngine == frame.pc # "none"

\* what the claims about the order of the stages share: the statistics
\* are complete before the engine starts, the report and the log entry come
\* after the record, the exit code comes last, and the record is the one
\* the function returns
OrderAroundEngine ==
    /\ InEngine => (memStats # NoStats /\ memStats = CalculateMemoryStats(processes))
    /\ (pc \in {"CreateLogEntry", "exit", "exited"} \/ logError # "none") =>
           /\ frame.pc = "returned"
           /\ rec = GenerateEnhancedRecommendations(sysInfo, memStats, config,
                                                    statusInfo, vhostCount, arch)
    /\ (pc = "exited") => (logError # "none" /\ exitCode # -1)
    /\ (exitCode # -1) => (pc \notin {"CreateLogEntry", "exit"})

HandedDifference ==
    sysInfo.AvailableMemoryMB =
        services.measured
          - SumOver(services.OtherServices, DOMAIN services.OtherServices \cap ServiceNames)

\* C22: the available memory handed to the engine is the measured one less
\* the memory of all detected services (the PHP-FPM-Note marker left out,
\* PHP-FPM counted once), and it is never negative.
C22_HandedAvailable ==
    (services.pc = "handed") =>
        /\ HandedDifference
        /\ sysInfo.AvailableMemoryMB >= 0

\* the first half of C22 holds on its own
C22_HandedDifferenceOnly == (services.pc = "handed") => HandedDifference

Min(a, b) == IF a < b THEN a ELSE b

\* C24: GetRecentLogEntries(count), count >= 1, on a readable log of n lines
\* returns the last min(count, n) lines in file order; right after a
\* successful CreateLogEntry the last line returned is the entry just
\* appended, and the lines written before are all still there, unchanged
\* and in front of it.
C24_RecentEntries ==
    (history.pc = "GetRecentLogEntries" /\ history.err = "nil") =>
        LET all == ScanLines(history.text)
            n == Len(all)
            got == history.lines
        IN  /\ Len(got) = Min(history.count, n)
            /\ \A i \in 1..Len(got) : got[i] = all[n - Len(got) + i]
            /\ (history.follows = "nil") =>
                   /\ got[Len(got)] = <<history.entry>>
                   /\ all = Append(history.before, <<history.entry>>)

\* fewer lines asked for than the log has, right after an entry was added
C24_Witness ==
    /\ history.pc = "GetRecentLogEntries"
    /\ history.err = "nil"
    /\ history.follows = "nil"
    /\ history.count = 2
    /\ Len(ScanLines(history.text)) = 3
    /\ history.lines[1] # history.lines[2]

\* C23: AnalyzeApacheLogs always returns its LogAnalysis, after at most one
\* timeout per candidate path, even when reading or opening a candidate
\* never completes.
C23_AlwaysReturns ==
    /\ [](logs.timeouts <= MaxLogPaths)
    /\ <>(logs.pc = "returned")

\* C27: the shared LogAnalysis is never written concurrently or late: at
\* most one goroutine can write to it at any time, and after
\* AnalyzeApacheLogs has returned it keeps the value it was returned with.
C27_OneWriterNoneLate ==
    /\ Cardinality({p \in LogPaths : running(logs.workers[p])}) <= 1
    /\ (logs.pc = "returned") => (logs.analysis = logs.returned)

\* C28: parseConfigFile returns for every finite set of configuration
\* files, also when a file includes itself, directly or through other files.
C28_Terminates == <>(parse.pc = "returned")

\* the directives of a file that set the field called name
Matching(lines, name) ==
    {i \in 1..Len(lines) :
        lines[i].kind = "directive" /\ lines[i].name = name /\ lines[i].integer}

Last(indices) == CHOOSE i \in indices : \A j \in indices : j <= i

\* the section line i of a file is in: that of the nearest line before it
\* that enters or leaves a section; "" outside every section
SectionAt(lines, i) ==
    LET marks == {j \in 1..(i - 1) :
                     \/ lines[j].kind = "</IfModule>"
                     \/ lines[j].kind = "<IfModule" /\ entered(lines[j].name) # ""}
    IN  IF marks = {} THEN ""
        ELSE IF lines[Last(marks)].kind = "</IfModule>" THEN ""
        ELSE entered(lines[Last(marks)].name)

\* what the state machine of C29 makes of the main file
SectionMachine ==
    LET lines == parse.files[1]
        limits == {i \in Matching(lines, "MaxClients") \cup Matching(lines, "MaxRequestWorkers") :
                      SectionAt(lines, i) # ""}
    IN  /\ \A name \in {"MaxClients", "MaxRequestWorkers", "ServerLimit", "ThreadsPerChild"} :
               Matching(lines, name) # {} =>
                   parse.config[name] = lines[Last(Matching(lines, name))].value
        /\ parse.config.MPMModel =
               IF limits = {} THEN "prefork" ELSE SectionAt(lines, Last(limits))

\* C29: over the lines of a file, an <IfModule mpm_X line that is not
\* negated enters section X and a </IfModule> line leaves it; MaxClients
\* and MaxRequestWorkers with an integer set their limit and, inside
\* section X, the model X; ServerLimit and ThreadsPerChild set their fields
\* only; for each field the last matching directive gives the final value.
C29_SectionMachine == (parse.pc = "returned") => SectionMachine

\* C29 holds of every file when no built-in default is detected
C29_SectionMachineNoDefaults ==
    (parse.pc = "returned" /\ ~parse.buildInfo) => SectionMachine

\* the values of the directives called name in the files that were parsed
ValuesOf(name) ==
    UNION {{parse.files[f][i].value : i \in Matching(parse.files[f], name)} :
              f \in parse.parsed}

\* C30: when the parsed files have a MaxClients directive and no
\* MaxRequestWorkers directive, GetCurrentMaxClients returns a value a
\* MaxClients directive gave, whatever default was detected.
C30_ExplicitNotShadowed ==
    (/\ parse.pc = "returned"
     /\ ValuesOf("MaxClients") # {}
     /\ ValuesOf("MaxRequestWorkers") = {}) =>
        GetCurrentMaxClients(parse.config) \in ValuesOf("MaxClients")

\* C30 holds when no built-in default is detected
C30_ExplicitNoDefaults ==
    (/\ parse.pc = "returned"
     /\ ~parse.buildInfo
     /\ ValuesOf("MaxClients") # {}
     /\ ValuesOf("MaxRequestWorkers") = {}) =>
        GetCurrentMaxClients(parse.config) \in ValuesOf("MaxClients")

=============================================================================
